---- MODULE Spec2Model ----
(***************************************************************************)
(* Parser registry and resolution of python-anyconfig:                     *)
(*   anyconfig/backends.py  grouping of the parser classes into the two     *)
(*                          module-level indices, and the public lookups    *)
(*   anyconfig/inputs.py    classification of an input object, resolution   *)
(*                          of its parser, and the Input value              *)
(*   anyconfig/globals.py   the Input namedtuple and the two error types    *)
(*                                                                         *)
(* Python values are tagged records: None, str (a sequence of one-character *)
(* strings), pathlib.Path, a stream, any other object, a parser class, a    *)
(* parser instance and the Input namedtuple.  A call's result is either     *)
(* [kind |-> "return"] with its value or [kind |-> "raise"] with the        *)
(* exception type and argument; `calls` lists the lookups and the           *)
(* classification the call went through.                                    *)
(***************************************************************************)
EXTENDS Integers, Sequences, FiniteSets, TLC

VARIABLES PARSERS, _PARSERS_BY_TYPE, _PARSERS_BY_EXT, call

vars == <<PARSERS, _PARSERS_BY_TYPE, _PARSERS_BY_EXT, call>>

(***************************************************************************)
(* Bounds of the model.                                                    *)
(***************************************************************************)
MaxParsers == 2

MaxPathLen == 3

MaxPriority == 1

(***************************************************************************)
(* Python values.                                                          *)
(***************************************************************************)
None == [kind |-> "NoneType"]

Str(s) == [kind |-> "str", val |-> s]

PathObj(s) == [kind |-> "pathlib.Path", posix |-> s]

Stream(name) == [kind |-> "stream", name |-> name]

\* A tuple passed where None may be passed too.
Tuple(t) == [kind |-> "tuple", val |-> t]

Object(truthy) == [kind |-> "object", truthy |-> truthy]

Class(i, t, xs, p) ==
    [kind |-> "class", id |-> i, type |-> t, extensions |-> xs, priority |-> p]

Return(v, cs) == [kind |-> "return", value |-> v, calls |-> cs]

Raise(e, a, cs) == [kind |-> "raise", exc |-> e, arg |-> a, calls |-> cs]

\* Code points of the characters the model uses; Python compares str values
\* code point by code point.
Ord(c) == CASE c = "." -> 46 [] c = "/" -> 47 [] c = "j" -> 106 [] c = "y" -> 121

Min(a, b) == IF a <= b THEN a ELSE b

\* a < b on two str values.
StrLt(a, b) ==
    LET s == a.val
        t == b.val
    IN  \/ \E k \in 1..Min(Len(s), Len(t)) :
              /\ \A i \in 1..(k - 1) : s[i] = t[i]
              /\ Ord(s[k]) < Ord(t[k])
        \/ /\ Len(s) < Len(t)
           /\ \A i \in 1..Len(s) : s[i] = t[i]

IntLt(a, b) == a < b

\* bool(obj): None, the empty str and an object that defines itself empty are
\* falsy; classes, instances, paths, streams and namedtuples of five fields
\* are truthy.
Truthy(obj) ==
    CASE obj.kind = "NoneType" -> FALSE
      [] obj.kind = "str"      -> obj.val # <<>>
      [] obj.kind = "object"   -> obj.truthy
      [] OTHER                 -> TRUE

(***************************************************************************)
(* The parser classes' methods.                                            *)
(***************************************************************************)
type(p) == Str(p.type)

extensions(p) == [i \in DOMAIN p.extensions |-> Str(p.extensions[i])]

priority(p) == p.priority

\* parser(): a new instance of the class.
Instantiate(cls) == [kind |-> "parser", cls |-> cls, fresh |-> TRUE]

(***************************************************************************)
(* backends.py: the grouping engine.                                       *)
(***************************************************************************)
fst(tpl) == tpl[1]

snd(tpl) == tpl[2]

\* keyfunc(x) for the three key functions the module sorts and groups by:
\* operator.methodcaller("type"), operator.methodcaller("priority") and fst.
Key(keyfunc, x) ==
    CASE keyfunc = "type"     -> type(x)
      [] keyfunc = "priority" -> priority(x)
      [] keyfunc = "fst"      -> fst(x)

\* a < b on two keys of keyfunc: priorities are numbers, the others are str.
KeyLt(keyfunc, a, b) == IF keyfunc = "priority" THEN IntLt(a, b) ELSE StrLt(a, b)

\* The builtin sorted(itr, key=keyfunc): ascending by key, stable.
sorted(itr, keyfunc) ==
    LET n == Len(itr)
        rank(i) == 1 + Cardinality({j \in 1..n :
                          \/ KeyLt(keyfunc, Key(keyfunc, itr[j]), Key(keyfunc, itr[i]))
                          \/ Key(keyfunc, itr[j]) = Key(keyfunc, itr[i]) /\ j < i})
    IN  [k \in 1..n |-> itr[CHOOSE i \in 1..n : rank(i) = k]]

\* itertools.groupby(itr, key=keyfunc): one (key, group) pair per maximal run
\* of consecutive items with equal keys.
groupby(itr, keyfunc) ==
    LET n == Len(itr)
        starts == {i \in 1..n :
                      i = 1 \/ Key(keyfunc, itr[i]) # Key(keyfunc, itr[i - 1])}
        start(k) == CHOOSE i \in starts :
                        Cardinality({j \in starts : j < i}) = k - 1
        stop(k) == IF k = Cardinality(starts) THEN n ELSE start(k + 1) - 1
    IN  [k \in 1..Cardinality(starts) |->
            <<Key(keyfunc, itr[start(k)]), SubSeq(itr, start(k), stop(k))>>]

groupby_key(itr, keyfunc) == groupby(sorted(itr, keyfunc), keyfunc)

\* The groups left in the order of the list, not sorted by priority.
_list_parsers_by_type_unsorted(cps) ==
    LET grps == groupby_key(cps, "type")
    IN  [k \in DOMAIN grps |-> <<grps[k][1], grps[k][2]>>]

_list_parsers_by_type(cps) ==
    LET grps == groupby_key(cps, "type")
    IN  [k \in DOMAIN grps |-> <<grps[k][1], sorted(grps[k][2], "priority")>>]

_list_xppairs(xps) ==
    sorted([i \in DOMAIN xps |-> snd(xps[i])], "priority")

RECURSIVE concat(_)
\* anyconfig.utils.concat: the lists of a list, chained.
concat(xss) == IF xss = <<>> THEN <<>> ELSE Head(xss) \o concat(Tail(xss))

\* groupby over the pairs as they come, not sorted by extension first.
_list_parsers_by_extension_ungrouped(cps) ==
    LET pairs(p) == [i \in DOMAIN extensions(p) |-> <<extensions(p)[i], p>>]
        cps_by_ext == concat([k \in DOMAIN cps |-> pairs(cps[k])])
        grps == groupby(cps_by_ext, "fst")
    IN  [k \in DOMAIN grps |-> <<grps[k][1], _list_xppairs(grps[k][2])>>]

_list_parsers_by_extension(cps) ==
    LET pairs(p) == [i \in DOMAIN extensions(p) |-> <<extensions(p)[i], p>>]
        cps_by_ext == concat([k \in DOMAIN cps |-> pairs(cps[k])])
        grps == groupby_key(cps_by_ext, "fst")
    IN  [k \in DOMAIN grps |-> <<grps[k][1], _list_xppairs(grps[k][2])>>]

(***************************************************************************)
(* anyconfig.utils: the helpers inputs.py calls.                           *)
(***************************************************************************)
is_path(obj) == obj.kind = "str"

is_path_obj(obj) == obj.kind = "pathlib.Path"

is_io_obj(obj) == obj.kind = "Input"

is_ioinfo(obj) == obj.kind = "Input"

RECURSIVE collapse(_)
\* A run of separators becomes one separator.
collapse(s) ==
    IF Len(s) <= 1 THEN s
    ELSE IF s[1] = "/" /\ s[2] = "/" THEN collapse(Tail(s))
    ELSE <<s[1]>> \o collapse(Tail(s))

\* Separator normalisation of a character sequence: runs of separators
\* collapsed, a trailing separator dropped.
normseq(s) ==
    LET c == collapse(s)
    IN  IF Len(c) > 1 /\ c[Len(c)] = "/" THEN SubSeq(c, 1, Len(c) - 1) ELSE c

normpath(path) == Str(normseq(path.val))

\* The stream's name attribute, None when it has none.
get_path_from_stream(obj) == IF obj.kind = "stream" THEN obj.name ELSE None

\* os.path.splitext(path)[-1] without its dot: the text after the last dot of
\* the last path component, "" when that component has no dot after its
\* first character that is not a dot.
get_file_extension(file_path) ==
    LET s == file_path.val
        n == Len(s)
        seps == {i \in 1..n : s[i] = "/"}
        sep == IF seps = {} THEN 0 ELSE CHOOSE i \in seps : \A j \in seps : j <= i
        dots == {i \in (sep + 1)..n : s[i] = "."}
        dot == IF dots = {} THEN 0 ELSE CHOOSE i \in dots : \A j \in dots : j <= i
    IN  IF dot > sep /\ \E i \in (sep + 1)..(dot - 1) : s[i] # "."
        THEN Str(SubSeq(s, dot + 1, n))
        ELSE Str(<<>>)

(***************************************************************************)
(* inputs.py                                                               *)
(***************************************************************************)
NONE == "None"

PATH_STR == "path"

PATH_OBJ == "pathlib.Path"

STREAM == "stream"

ITYPES == <<NONE, PATH_STR, PATH_OBJ, STREAM>>

guess_io_type(obj) ==
    IF obj = None THEN NONE
    ELSE IF is_path(obj) THEN PATH_STR
    ELSE IF is_path_obj(obj) THEN PATH_OBJ
    ELSE STREAM

\* A stream whose path cannot be recovered is refused.
inspect_io_obj_nameless_refused(obj) ==
    LET itype == guess_io_type(obj)
    IN  IF itype = PATH_STR
        THEN Return(<<itype, normpath(obj), "open">>, {"inspect_io_obj"})
        ELSE IF itype = PATH_OBJ
        THEN Return(<<itype, normpath(Str(obj.posix)), "Path.open">>, {"inspect_io_obj"})
        ELSE IF itype = STREAM /\ get_path_from_stream(obj) # None
        THEN Return(<<itype, get_path_from_stream(obj), "noop">>, {"inspect_io_obj"})
        ELSE IF itype = NONE
        THEN Return(<<itype, None, "noop">>, {"inspect_io_obj"})
        ELSE Raise("UnknownFileTypeError", obj, {"inspect_io_obj"})

\* Returns the tuple (itype, ipath, opener), or raises.
inspect_io_obj(obj) ==
    LET itype == guess_io_type(obj)
    IN  IF itype = PATH_STR
        THEN Return(<<itype, normpath(obj), "open">>, {"inspect_io_obj"})
        ELSE IF itype = PATH_OBJ
        THEN Return(<<itype, normpath(Str(obj.posix)), "Path.open">>, {"inspect_io_obj"})
        ELSE IF itype = STREAM
        THEN Return(<<itype, get_path_from_stream(obj), "noop">>, {"inspect_io_obj"})
        ELSE IF itype = NONE
        THEN Return(<<itype, None, "noop">>, {"inspect_io_obj"})
        ELSE Raise("UnknownFileTypeError", obj, {"inspect_io_obj"})

\* The last parser of the first pair whose key is fileext, else None.
find_by_fileext(fileext, cps_by_ext) ==
    LET hits == {k \in DOMAIN cps_by_ext : cps_by_ext[k][1] = fileext}
    IN  IF hits = {} THEN None
        ELSE LET psrs == cps_by_ext[CHOOSE k \in hits : \A j \in hits : k <= j][2]
             IN  psrs[Len(psrs)]

\* The whole path looked up in place of its extension.
find_by_filepath_whole(filepath, cps_by_ext) == find_by_fileext(filepath, cps_by_ext)

find_by_filepath(filepath, cps_by_ext) ==
    find_by_fileext(get_file_extension(filepath), cps_by_ext)

find_by_type(cptype, cps_by_type) ==
    LET hits == {k \in DOMAIN cps_by_type : cps_by_type[k][1] = cptype}
    IN  IF hits = {} THEN None
        ELSE LET psrs == cps_by_type[CHOOSE k \in hits : \A j \in hits : k <= j][2]
                 last == psrs[Len(psrs)]
             IN  IF Truthy(last) THEN last ELSE None

is_parser(obj) == obj.kind = "parser"

\* A forced type that is no key of the type index is tried as an extension.
find_parser_ext_fallback(ipath, cps_by_ext, cps_by_type, forced_type) ==
    IF (ipath = None \/ ~Truthy(ipath)) /\ forced_type = None
    THEN Raise("ValueError", None, {})
    ELSE IF is_parser(forced_type)
    THEN Return(forced_type, {})
    ELSE IF forced_type = None
    THEN LET parser == find_by_filepath(ipath, cps_by_ext)
         IN  IF parser = None
             THEN Raise("UnknownFileTypeError", ipath, {"find_by_filepath"})
             ELSE Return(Instantiate(parser), {"find_by_filepath"})
    ELSE LET bytype == find_by_type(forced_type, cps_by_type)
             parser == IF bytype = None
                       THEN find_by_fileext(forced_type, cps_by_ext)
                       ELSE bytype
         IN  IF parser = None
             THEN Raise("UnknownParserTypeError", forced_type, {"find_by_type"})
             ELSE Return(Instantiate(parser), {"find_by_type"})

find_parser(ipath, cps_by_ext, cps_by_type, forced_type) ==
    IF (ipath = None \/ ~Truthy(ipath)) /\ forced_type = None
    THEN Raise("ValueError", None, {})
    ELSE IF is_parser(forced_type)
    THEN Return(forced_type, {})
    ELSE IF forced_type = None
    THEN LET parser == find_by_filepath(ipath, cps_by_ext)
         IN  IF parser = None
             THEN Raise("UnknownFileTypeError", ipath, {"find_by_filepath"})
             ELSE Return(Instantiate(parser), {"find_by_filepath"})
    ELSE LET parser == find_by_type(forced_type, cps_by_type)
         IN  IF parser = None
             THEN Raise("UnknownParserTypeError", forced_type, {"find_by_type"})
             ELSE Return(Instantiate(parser), {"find_by_type"})

\* globals.py: Input = namedtuple("Input", "src type path parser opener")
Input(src, itype, path, parser, opener) ==
    [kind |-> "Input", src |-> src, type |-> itype, path |-> path,
     parser |-> parser, opener |-> opener]

\* make without the pass-through of an Input.
make_reclassify(obj, cps_by_ext, cps_by_type, forced_type) ==
    IF (obj = None \/ ~Truthy(obj)) /\ forced_type = None
    THEN Raise("ValueError", None, {})
    ELSE LET ioi == inspect_io_obj(obj)
         IN  IF ioi.kind = "raise" THEN ioi
             ELSE LET psr == find_parser(ioi.value[2], cps_by_ext, cps_by_type,
                                         forced_type)
                      cs == ioi.calls \cup psr.calls
                  IN  IF psr.kind = "raise"
                      THEN Raise(psr.exc, psr.arg, cs)
                      ELSE Return(Input(obj, ioi.value[1], ioi.value[2],
                                        psr.value, ioi.value[3]), cs)

make(obj, cps_by_ext, cps_by_type, forced_type) ==
    IF is_io_obj(obj)
    THEN Return(obj, {})
    ELSE IF (obj = None \/ ~Truthy(obj)) /\ forced_type = None
    THEN Raise("ValueError", None, {})
    ELSE LET ioi == inspect_io_obj(obj)
         IN  IF ioi.kind = "raise" THEN ioi
             ELSE LET psr == find_parser(ioi.value[2], cps_by_ext, cps_by_type,
                                         forced_type)
                      cs == ioi.calls \cup psr.calls
                  IN  IF psr.kind = "raise"
                      THEN Raise(psr.exc, psr.arg, cs)
                      ELSE Return(Input(obj, ioi.value[1], ioi.value[2],
                                        psr.value, ioi.value[3]), cs)

(***************************************************************************)
(* backends.py: the public lookups over the module-level indices.          *)
(***************************************************************************)
\* backends.inspect_io_obj
backends_inspect_io_obj(obj, cps_by_ext, cps_by_type, forced_type) ==
    make(obj, cps_by_ext, cps_by_type, forced_type)

find_parser_by_type(forced_type, cps_by_ext, cps_by_type) ==
    IF forced_type = None \/ ~Truthy(forced_type)
    THEN Raise("ValueError", None, {})
    ELSE find_parser(None, cps_by_ext, cps_by_type, forced_type)

\* backends.find_parser
backends_find_parser(obj, forced_type) ==
    IF is_ioinfo(obj)
    THEN Return(obj.parser, {})
    ELSE LET ioi == backends_inspect_io_obj(obj, _PARSERS_BY_EXT,
                                            _PARSERS_BY_TYPE, forced_type)
         IN  IF ioi.kind = "raise" THEN ioi
             ELSE Return(ioi.value.parser, ioi.calls)

\* next(izip(*cps)): the tuple of the first items of the pairs; izip of no
\* argument is exhausted at once and next raises StopIteration.
list_types(cps) ==
    LET idx == IF cps = None THEN _list_parsers_by_type(PARSERS) ELSE cps.val
    IN  IF idx = <<>>
        THEN Raise("StopIteration", None, {})
        ELSE LET names == {idx[k][1] : k \in DOMAIN idx}
                 rank(t) == 1 + Cardinality({u \in names : StrLt(u, t)})
             IN  Return([k \in 1..Cardinality(names) |->
                             CHOOSE t \in names : rank(t) = k], {})

(***************************************************************************)
(* The values the calls are made with.                                     *)
(***************************************************************************)
Chars == {".", "/", "j"}

Strs == UNION {[1..n -> Chars] : n \in 0..MaxPathLen}

TypeNames == {<<"j">>, <<"y">>}

ExtNames == {<<"j">>, <<"y">>}

\* A class declares each of its extensions once: the lists of distinct
\* extension names, in every order.
ExtSeqs ==
    {xs \in UNION {[1..n -> ExtNames] : n \in 0..Cardinality(ExtNames)} :
        \A i, j \in DOMAIN xs : xs[i] = xs[j] => i = j}

\* The class at position i of the list is the class of identity i.
Registry(attrs) ==
    [i \in DOMAIN attrs |->
        Class(i, attrs[i].type, attrs[i].extensions, attrs[i].priority)]

Attrs == [type : TypeNames, extensions : ExtSeqs, priority : 0..MaxPriority]

\* Three classes: two of one type and equal priority, one of them declaring
\* an extension spelled like the other type; one of higher priority that
\* shares an extension with the first.
BACKENDS ==
    {[type |-> <<"j">>, extensions |-> <<<<"j">>>>, priority |-> 0],
     [type |-> <<"y">>, extensions |-> <<<<"j">>>>, priority |-> MaxPriority],
     [type |-> <<"j">>, extensions |-> <<<<"y">>>>, priority |-> 0]}

Tokens == {Str(t) : t \in {<<>>} \cup TypeNames \cup ExtNames}

\* An instance of a parser class the caller made itself.
GivenParser == [kind |-> "parser", cls |-> Class(0, <<"j">>, <<>>, 0), fresh |-> FALSE]

ForcedTypes == {None, GivenParser} \cup Tokens

Paths == {Str(s) : s \in Strs}

Objects ==
    {None, Object(TRUE), Object(FALSE), Stream(None)}
        \cup Paths
        \cup {PathObj(s) : s \in Strs \ {<<>>}}
        \cup {Stream(Str(s)) : s \in Strs \ {<<>>}}

Idle == [op |-> "idle", obj |-> None, forced_type |-> None, cps |-> "module", out |-> None]

\* The index pair a call is given: the module's, or the indices of no class.
ByExt(cps) == IF cps = "module" THEN _PARSERS_BY_EXT ELSE <<>>

ByType(cps) == IF cps = "module" THEN _PARSERS_BY_TYPE ELSE <<>>

\* What the call op(obj, forced_type) gives in the current state.
Outcome(op, obj, forced_type, cps) ==
    CASE op = "find_by_type" -> Return(find_by_type(obj, ByType(cps)), {})
      [] op = "find_by_fileext" -> Return(find_by_fileext(obj, ByExt(cps)), {})
      [] op = "list_types" ->
            list_types(IF cps = "None" THEN None ELSE Tuple(ByType(cps)))
      [] op = "inspect_io_obj" -> inspect_io_obj(obj)
      [] op = "find_parser" -> find_parser(obj, ByExt(cps), ByType(cps), forced_type)
      [] op = "make" -> make(obj, ByExt(cps), ByType(cps), forced_type)
      [] op = "find_parser_by_type" ->
            find_parser_by_type(forced_type, ByExt(cps), ByType(cps))
      [] op = "backends.find_parser" -> backends_find_parser(obj, forced_type)

Invoke(op, obj, forced_type, cps) ==
    [op |-> op, obj |-> obj, forced_type |-> forced_type, cps |-> cps,
     out |-> Outcome(op, obj, forced_type, cps)]

(***************************************************************************)
(* The state machine: the module is imported (Init), then the caller makes *)
(* one call at a time and takes its result.                                *)
(***************************************************************************)
Import(attrs) ==
    /\ PARSERS = Registry(attrs)
    /\ _PARSERS_BY_TYPE = _list_parsers_by_type(PARSERS)
    /\ _PARSERS_BY_EXT = _list_parsers_by_extension(PARSERS)
    /\ call = Idle

Init == \E attrs \in UNION {[1..n -> BACKENDS] : n \in 0..MaxParsers} : Import(attrs)

InitGroup == \E attrs \in UNION {[1..n -> Attrs] : n \in 0..MaxParsers} : Import(attrs)

\* find_by_type reversing the group in place (psrs.reverse()) on its way to
\* the preferred parser.
FindByType_reversing ==
    /\ call.op = "idle"
    /\ \E cptype \in Tokens :
          /\ call' = Invoke("find_by_type", cptype, None, "module")
          /\ _PARSERS_BY_TYPE' =
                [k \in DOMAIN _PARSERS_BY_TYPE |->
                    IF _PARSERS_BY_TYPE[k][1] = cptype
                    THEN <<cptype,
                           [i \in DOMAIN _PARSERS_BY_TYPE[k][2] |->
                               _PARSERS_BY_TYPE[k][2][Len(_PARSERS_BY_TYPE[k][2]) + 1 - i]]>>
                    ELSE _PARSERS_BY_TYPE[k]]
    /\ UNCHANGED <<PARSERS, _PARSERS_BY_EXT>>

FindByType ==
    /\ call.op = "idle"
    /\ \E cptype \in Tokens : call' = Invoke("find_by_type", cptype, None, "module")
    /\ UNCHANGED <<PARSERS, _PARSERS_BY_TYPE, _PARSERS_BY_EXT>>

FindByFileext ==
    /\ call.op = "idle"
    /\ \E fileext \in Tokens : call' = Invoke("find_by_fileext", fileext, None, "module")
    /\ UNCHANGED <<PARSERS, _PARSERS_BY_TYPE, _PARSERS_BY_EXT>>

\* list_types() over its default, the module's index, and list_types(None).
ListTypes ==
    /\ call.op = "idle"
    /\ \E cps \in {"module", "None"} : call' = Invoke("list_types", None, None, cps)
    /\ UNCHANGED <<PARSERS, _PARSERS_BY_TYPE, _PARSERS_BY_EXT>>

InspectIoObj ==
    /\ call.op = "idle"
    /\ \E obj \in Objects : call' = Invoke("inspect_io_obj", obj, None, "module")
    /\ UNCHANGED <<PARSERS, _PARSERS_BY_TYPE, _PARSERS_BY_EXT>>

FindParser ==
    /\ call.op = "idle"
    /\ \E ipath \in {None} \cup Paths, forced_type \in ForcedTypes :
          call' = Invoke("find_parser", ipath, forced_type, "module")
    /\ UNCHANGED <<PARSERS, _PARSERS_BY_TYPE, _PARSERS_BY_EXT>>

Make ==
    /\ call.op = "idle"
    /\ \E obj \in Objects, forced_type \in ForcedTypes :
          call' = Invoke("make", obj, forced_type, "module")
    /\ UNCHANGED <<PARSERS, _PARSERS_BY_TYPE, _PARSERS_BY_EXT>>

\* The caller hands the Input it got from make to make again, with any forced
\* type and either index pair.
MakeAgain ==
    /\ call.op = "make"
    /\ call.out.kind = "return"
    /\ ~is_io_obj(call.obj)
    /\ \E forced_type \in ForcedTypes, cps \in {"module", "empty"} :
          call' = Invoke("make", call.out.value, forced_type, cps)
    /\ UNCHANGED <<PARSERS, _PARSERS_BY_TYPE, _PARSERS_BY_EXT>>

FindParserByType ==
    /\ call.op = "idle"
    /\ \E forced_type \in ForcedTypes :
          call' = Invoke("find_parser_by_type", None, forced_type, "module")
    /\ UNCHANGED <<PARSERS, _PARSERS_BY_TYPE, _PARSERS_BY_EXT>>

BackendsFindParser ==
    /\ call.op = "idle"
    /\ \E obj \in Objects, forced_type \in ForcedTypes :
          call' = Invoke("backends.find_parser", obj, forced_type, "module")
    /\ UNCHANGED <<PARSERS, _PARSERS_BY_TYPE, _PARSERS_BY_EXT>>

\* The caller hands the Input it got from make to backends.find_parser.
FindParserOfInput ==
    /\ call.op = "make"
    /\ call.out.kind = "return"
    /\ ~is_io_obj(call.obj)
    /\ \E forced_type \in {None} \cup Tokens :
          call' = Invoke("backends.find_parser", call.out.value, forced_type, "module")
    /\ UNCHANGED <<PARSERS, _PARSERS_BY_TYPE, _PARSERS_BY_EXT>>

\* The caller takes the result.
Done ==
    /\ call.op # "idle"
    /\ call' = Idle
    /\ UNCHANGED <<PARSERS, _PARSERS_BY_TYPE, _PARSERS_BY_EXT>>

Next ==
    \/ FindByType
    \/ FindByFileext
    \/ ListTypes
    \/ InspectIoObj
    \/ FindParser
    \/ Make
    \/ MakeAgain
    \/ FindParserByType
    \/ BackendsFindParser
    \/ FindParserOfInput
    \/ Done

Spec == Init /\ [][Next]_vars

NextGroup ==
    \/ FindByType
    \/ FindByFileext
    \/ ListTypes
    \/ Done

SpecGroup == InitGroup /\ [][NextGroup]_vars

(***************************************************************************)
(* Properties.                                                             *)
(***************************************************************************)
KeysOf(idx) == {idx[k][1] : k \in DOMAIN idx}

Registered == {PARSERS[i] : i \in DOMAIN PARSERS}

Declares(p, x) == \E i \in DOMAIN extensions(p) : extensions(p)[i] = x

\* The last parser of the group of idx keyed by key.
LastOf(idx, key) ==
    LET psrs == idx[CHOOSE k \in DOMAIN idx : idx[k][1] = key][2]
    IN  psrs[Len(psrs)]

\* The class of S of the highest priority, the latest of the list among
\* those of that priority.
Preferred(S) ==
    CHOOSE p \in S : \A q \in S :
        \/ priority(q) < priority(p)
        \/ priority(q) = priority(p) /\ q.id <= p.id

Count(grp, p) == Cardinality({i \in DOMAIN grp : grp[i] = p})

\* C1: for a key of the type index (of the extension index), find_by_type
\* (find_by_fileext) returns the class of that type (declaring that
\* extension) whose priority is the highest, and among the classes of that
\* priority the one registered last.
C1_PreferredLatest ==
    /\ (call.op = "find_by_type" /\ call.obj \in KeysOf(_PARSERS_BY_TYPE))
          => call.out.value = Preferred({p \in Registered : type(p) = call.obj})
    /\ (call.op = "find_by_fileext" /\ call.obj \in KeysOf(_PARSERS_BY_EXT))
          => call.out.value = Preferred({p \in Registered : Declares(p, call.obj)})

\* Two classes of one type and one priority are registered, and find_by_type
\* for their type has returned the later one.
C1_Witness ==
    /\ call.op = "find_by_type"
    /\ \E p, q \in Registered :
          /\ p.id < q.id
          /\ type(p) = call.obj /\ type(q) = call.obj
          /\ priority(p) = priority(q)
          /\ call.out.value = q

C8_ListTypesSorted ==
    call.op = "list_types" =>
        /\ call.out.kind = "return"
        /\ \A i, j \in DOMAIN call.out.value :
              i < j => StrLt(call.out.value[i], call.out.value[j])
        /\ {call.out.value[i] : i \in DOMAIN call.out.value}
              = {type(p) : p \in Registered}

\* C2: find_parser raises ValueError whenever ipath is None or empty and
\* forced_type is None or the empty str.
C2_BothAbsentIsValueError ==
    (/\ call.op = "find_parser"
     /\ (call.obj = None \/ ~Truthy(call.obj))
     /\ (call.forced_type = None \/ call.forced_type = Str(<<>>)))
        => call.out.kind = "raise" /\ call.out.exc = "ValueError"

\* C3: with a type token forced, find_parser returns a new instance of the
\* last parser of the token's group of the type index, found by the type
\* lookup alone, or raises UnknownParserTypeError naming the token when the
\* token is no key of the type index; whatever ipath is.
C3_ForcedTypeOnly ==
    (call.op = "find_parser" /\ call.forced_type \in Tokens) =>
        IF call.forced_type \in KeysOf(_PARSERS_BY_TYPE)
        THEN call.out = Return(Instantiate(LastOf(_PARSERS_BY_TYPE, call.forced_type)),
                               {"find_by_type"})
        ELSE call.out = Raise("UnknownParserTypeError", call.forced_type,
                              {"find_by_type"})

\* The forced token is a registered extension and no registered type, the
\* path's extension is registered, and UnknownParserTypeError was raised.
C3_Witness ==
    /\ call.op = "find_parser"
    /\ call.obj.kind = "str"
    /\ get_file_extension(call.obj) \in KeysOf(_PARSERS_BY_EXT)
    /\ call.forced_type \in KeysOf(_PARSERS_BY_EXT)
    /\ call.forced_type \notin KeysOf(_PARSERS_BY_TYPE)
    /\ call.out.kind = "raise"
    /\ call.out.exc = "UnknownParserTypeError"

\* C4: with no forced type and a path that is not empty, find_parser raises
\* UnknownFileTypeError naming the path exactly when the path's extension is
\* no key of the extension index, and otherwise returns a new instance of the
\* last parser of that extension's group; it makes no type lookup.
C4_ByExtension ==
    (/\ call.op = "find_parser"
     /\ call.forced_type = None
     /\ call.obj.kind = "str"
     /\ Truthy(call.obj)) =>
        IF get_file_extension(call.obj) \in KeysOf(_PARSERS_BY_EXT)
        THEN call.out = Return(Instantiate(LastOf(_PARSERS_BY_EXT,
                                                  get_file_extension(call.obj))),
                               {"find_by_filepath"})
        ELSE call.out = Raise("UnknownFileTypeError", call.obj, {"find_by_filepath"})

\* A path with a registered extension has been resolved while two classes
\* declare that extension.
C4_Witness ==
    /\ call.op = "find_parser"
    /\ call.forced_type = None
    /\ call.obj.kind = "str"
    /\ get_file_extension(call.obj) # Str(<<>>)
    /\ call.out.kind = "return"
    /\ \E p \in Registered : p # call.out.value.cls /\ Declares(p, get_file_extension(call.obj))

\* C5: inspect_io_obj raises UnknownFileTypeError carrying the object for an
\* object that is not None, not a path, not a path object and not a stream.
C5_OtherObjectRefused ==
    (/\ call.op = "inspect_io_obj"
     /\ call.obj.kind \notin {"NoneType", "str", "pathlib.Path", "stream"})
        => /\ call.out.kind = "raise"
           /\ call.out.exc = "UnknownFileTypeError"
           /\ call.out.arg = call.obj

\* C6: make of an Input that make returned gives that Input back, all five
\* fields as they were, with no classification and no lookup, whatever the
\* forced type and the indices are.
C6_MakeIdempotent ==
    (call.op = "make" /\ is_io_obj(call.obj)) => call.out = Return(call.obj, {})

\* An Input was handed to make with the indices of no class and a forced
\* token that is no registered type.
C6_Witness ==
    /\ call.op = "make"
    /\ is_io_obj(call.obj)
    /\ call.cps = "empty"
    /\ call.forced_type \in Tokens
    /\ call.forced_type \notin KeysOf(_PARSERS_BY_TYPE)
    /\ call.obj.type = PATH_STR

\* The call just made gives the same outcome when it is made again.
Replay ==
    call.op # "idle" =>
        call.out = Outcome(call.op, call.obj, call.forced_type, call.cps)

\* C9: no call, successful or failing, changes either index, and at every
\* point the call just made, made again, gives the same outcome.
C9_IndicesFrozen ==
    /\ [][/\ _PARSERS_BY_TYPE' = _PARSERS_BY_TYPE
          /\ _PARSERS_BY_EXT' = _PARSERS_BY_EXT]_vars
    /\ []Replay

\* A second call after a successful one: backends.find_parser has returned
\* the parser of an Input that the make before it built from the indices of
\* two classes.
C9_Witness ==
    /\ call.op = "backends.find_parser"
    /\ is_io_obj(call.obj)
    /\ call.out.kind = "return"
    /\ call.out.value.fresh
    /\ Len(PARSERS) = 2

\* C10: make of a stream without a name and without a forced type classifies
\* the stream and then raises the ValueError of find_parser; with a forced
\* token that is a registered type it returns an Input of type stream, path
\* None and the no-op opener.
C10_NamelessStream ==
    (call.op = "make" /\ call.obj = Stream(None)) =>
        /\ call.forced_type = None
              => call.out = Raise("ValueError", None, {"inspect_io_obj"})
        /\ (call.forced_type \in Tokens /\ call.forced_type \in KeysOf(ByType(call.cps)))
              => call.out = Return(Input(call.obj, STREAM, None,
                                         Instantiate(LastOf(_PARSERS_BY_TYPE,
                                                            call.forced_type)),
                                         "noop"),
                                   {"inspect_io_obj", "find_by_type"})

\* make of a nameless stream has raised ValueError after classifying it.
C10_Witness ==
    /\ call.op = "make"
    /\ call.obj = Stream(None)
    /\ call.forced_type = None
    /\ call.out.kind = "raise"
    /\ "inspect_io_obj" \in call.out.calls
    /\ PARSERS # <<>>

====
